---- MODULE Spec2Model ----
(***************************************************************************)
(* yt2mp3: the persisted settings store (config.py), the download          *)
(* orchestration (downloader.py) and the command line front end (cli.py).  *)
(*                                                                         *)
(* Python str values are sequences of one-character strings, so that       *)
(* substring tests, os.path.expanduser and os.path.join are computed the   *)
(* way the library computes them.                                          *)
(***************************************************************************)
EXTENDS Integers, Sequences, FiniteSets, TLC

VARIABLES
    file,      \* content of the settings file on disk
    config,    \* ConfigManager.config, the in-memory settings object
    dirs,      \* directories that exist on the file system
    call,      \* the last operation invoked, with its arguments and pre-state
    ret,       \* the value the last operation returned
    exc,       \* the exception the last operation propagated ("none" if none)
    printed,   \* the console lines of the last operation
    trace,     \* the external / file-system calls of the last operation, in order
    nops,      \* number of operations performed so far
    pc,        \* position of the command line program
    args,      \* parsed command line flags of the program run
    exit_code  \* exit status of the process (-1 while running)

vars == <<file, config, dirs, call, ret, exc, printed, trace, nops, pc, args, exit_code>>

----------------------------------------------------------------------------
(* Bounds *)

MaxOps == 3        \* API calls made on one store / downloader
MaxIter == 2       \* iterations of the interactive prompt loop

----------------------------------------------------------------------------
(* String literals of the program *)

HOME == <<"/", "h">>
S_Downloads == <<"D", "o", "w", "n", "l", "o", "a", "d", "s">>
S_192 == <<"1", "9", "2">>
S_320 == <<"3", "2", "0">>
S_TitleExt == <<"%", "(", "t", "i", "t", "l", "e", ")", "s", ".", "%", "(", "e", "x", "t", ")", "s">>
S_XTitleExt == <<"X", "_">> \o S_TitleExt
S_AbsTemplate == <<"/", "t", ".", "%", "(", "e", "x", "t", ")", "s">>
S_youtube_com == <<"y", "o", "u", "t", "u", "b", "e", ".", "c", "o", "m">>
S_youtu_be == <<"y", "o", "u", "t", "u", ".", "b", "e">>
S_mp3 == <<"m", "p", "3">>
S_Unknown == <<"U", "n", "k", "n", "o", "w", "n">>
S_FFmpegExtractAudio == <<"F", "F", "m", "p", "e", "g", "E", "x", "t", "r", "a", "c", "t", "A", "u", "d", "i", "o">>
S_Format == <<"b", "e", "s", "t", "a", "u", "d", "i", "o", "[", "e", "x", "t", "=", "m", "4", "a", "]", "/",
              "b", "e", "s", "t", "a", "u", "d", "i", "o", "[", "e", "x", "t", "=", "w", "e", "b", "m", "]", "/",
              "b", "e", "s", "t", "a", "u", "d", "i", "o", "/",
              "b", "e", "s", "t", "[", "h", "e", "i", "g", "h", "t", "<", "=", "4", "8", "0", "]">>

----------------------------------------------------------------------------
(* Python values *)

PyStr(s) == [t |-> "str", s |-> s, b |-> FALSE, n |-> 0]
PyBool(b) == [t |-> "bool", s |-> <<>>, b |-> b, n |-> 0]
PyInt(n) == [t |-> "int", s |-> <<>>, b |-> FALSE, n |-> n]
PyNone == [t |-> "None", s |-> <<>>, b |-> FALSE, n |-> 0]

EmptyMap == [k \in {} |-> PyNone]

\* a dict object, a list object (json.load of a JSON array), and the
\* attribute that does not exist before __init__ has assigned it
PyDict(m) == [t |-> "dict", m |-> m]
PyList == [t |-> "list", m |-> EmptyMap]
Unset == [t |-> "unset", m |-> EmptyMap]
NoArg == [t |-> "None", m |-> EmptyMap]

----------------------------------------------------------------------------
(* The settings file and json.dump / json.load *)

Absent == [kind |-> "absent", members |-> EmptyMap]
\* bytes that are not valid text in the locale's encoding
Undecodable == [kind |-> "undecodable", members |-> EmptyMap]
\* text that is not JSON (also an empty or truncated file)
Malformed == [kind |-> "malformed", members |-> EmptyMap]
\* open(..., 'r') fails with an OSError (a directory, no read permission)
Unreadable == [kind |-> "unreadable", members |-> EmptyMap]

JsonString(s) == [j |-> "string", s |-> s]
JsonTrue == [j |-> "true", s |-> <<>>]
JsonFalse == [j |-> "false", s |-> <<>>]

DumpValue(v) ==
    IF v.t = "bool" THEN (IF v.b THEN JsonTrue ELSE JsonFalse)
    ELSE JsonString(v.s)

LoadValue(jv) ==
    IF jv.j = "true" THEN PyBool(TRUE)
    ELSE IF jv.j = "false" THEN PyBool(FALSE)
    ELSE PyStr(jv.s)

\* json.dump(config, f, indent=2) into a freshly truncated file
JsonDump(c) ==
    IF c.t = "dict"
    THEN [kind |-> "object", members |-> [k \in DOMAIN c.m |-> DumpValue(c.m[k])]]
    ELSE [kind |-> "array", members |-> EmptyMap]

\* json.load(f) of a file holding a JSON document
JsonLoad(f) ==
    IF f.kind = "object"
    THEN PyDict([k \in DOMAIN f.members |-> LoadValue(f.members[k])])
    ELSE PyList

----------------------------------------------------------------------------
(* config.py: ConfigManager *)

\* get_default_config with the keep_video default flipped
get_default_config_KeepVideo ==
    PyDict([k \in {"download_path", "audio_quality", "filename_format", "keep_video"} |->
        CASE k = "download_path" -> PyStr(HOME \o <<"/">> \o S_Downloads)
          [] k = "audio_quality" -> PyStr(S_192)
          [] k = "filename_format" -> PyStr(S_TitleExt)
          [] k = "keep_video" -> PyBool(TRUE)])

get_default_config ==
    PyDict([k \in {"download_path", "audio_quality", "filename_format", "keep_video"} |->
        CASE k = "download_path" -> PyStr(HOME \o <<"/">> \o S_Downloads)
          [] k = "audio_quality" -> PyStr(S_192)
          [] k = "filename_format" -> PyStr(S_TitleExt)
          [] k = "keep_video" -> PyBool(FALSE)])

\* how the write in save_config can end: both open and dump succeed; open
\* raises OSError (file untouched); open truncates and the dump raises OSError
WriteOutcomes == {"ok", "open_fails", "write_fails"}

\* save_config with  self.config = config  moved in front of the try block
save_config_AssignFirst(self_config, cur_file, given, w) ==
    LET c == IF given = NoArg THEN self_config ELSE given
    IN  IF w = "ok"
        THEN [file |-> JsonDump(c), config |-> c, printed |-> <<>>]
        ELSE [file |-> IF w = "open_fails" THEN cur_file ELSE Malformed,
              config |-> c,
              printed |-> <<"Error saving config">>]

save_config(self_config, cur_file, given, w) ==
    LET c == IF given = NoArg THEN self_config ELSE given
    IN  IF w = "ok"
        THEN [file |-> JsonDump(c), config |-> c, printed |-> <<>>]
        ELSE [file |-> IF w = "open_fails" THEN cur_file ELSE Malformed,
              config |-> self_config,
              printed |-> <<"Error saving config">>]

load_config(self_config, cur_file, w) ==
    IF cur_file.kind = "absent"
    THEN LET s == save_config(self_config, cur_file, get_default_config, w)
         IN  [file |-> s.file, config |-> s.config, printed |-> s.printed,
              ret |-> get_default_config, exc |-> "none"]
    ELSE IF cur_file.kind \in {"object", "array"}
    THEN [file |-> cur_file, config |-> self_config, printed |-> <<>>,
          ret |-> JsonLoad(cur_file), exc |-> "none"]
    ELSE IF cur_file.kind \in {"malformed", "unreadable"}
    THEN [file |-> cur_file, config |-> self_config,
          printed |-> <<"Error loading config", "Using default configuration...">>,
          ret |-> get_default_config, exc |-> "none"]
    ELSE [file |-> cur_file, config |-> self_config, printed |-> <<>>,
          ret |-> Unset, exc |-> "UnicodeDecodeError"]

\* ConfigManager.__init__: self.config = self.load_config()
ConfigManager_init(cur_file, w) ==
    LET l == load_config(Unset, cur_file, w)
    IN  [file |-> l.file,
         config |-> IF l.exc = "none" THEN l.ret ELSE Unset,
         printed |-> l.printed, exc |-> l.exc]

\* update_setting without the call of save_config
update_setting_NoSave(self_config, cur_file, key, value, w) ==
    IF self_config.t # "dict"
    THEN [file |-> cur_file, config |-> self_config, printed |-> <<>>, exc |-> "TypeError"]
    ELSE [file |-> cur_file,
          config |-> PyDict([k \in DOMAIN self_config.m \cup {key} |->
                               IF k = key THEN value ELSE self_config.m[k]]),
          printed |-> <<>>, exc |-> "none"]

update_setting(self_config, cur_file, key, value, w) ==
    IF self_config.t # "dict"
    THEN [file |-> cur_file, config |-> self_config, printed |-> <<>>, exc |-> "TypeError"]
    ELSE LET c == PyDict([k \in DOMAIN self_config.m \cup {key} |->
                            IF k = key THEN value ELSE self_config.m[k]])
             s == save_config(c, cur_file, NoArg, w)
         IN  [file |-> s.file, config |-> s.config, printed |-> s.printed, exc |-> "none"]

----------------------------------------------------------------------------
(* Library functions the program calls, computed as posixpath computes them *)

\* Python's  sub in s
Contains(s, sub) ==
    \E i \in 0..(Len(s) - Len(sub)) : SubSeq(s, i + 1, i + Len(sub)) = sub

StartsWith(s, p) == Len(s) >= Len(p) /\ SubSeq(s, 1, Len(p)) = p

\* s.find('/', 1) as a 1-based position; Len(s) + 1 when there is none
FindSlash(s) ==
    LET hits == {i \in 2..Len(s) : s[i] = "/"}
    IN  IF hits = {} THEN Len(s) + 1
        ELSE CHOOSE i \in hits : \A j \in hits : i <= j

RECURSIVE RStripSlash(_)
RStripSlash(s) ==
    IF s # <<>> /\ s[Len(s)] = "/" THEN RStripSlash(SubSeq(s, 1, Len(s) - 1)) ELSE s

\* the password database: login name -> home directory
PwdHomes == [u \in {<<"u">>} |-> <<"/", "u">>]

\* os.path.expanduser(path)
expanduser(path) ==
    IF ~StartsWith(path, <<"~">>) THEN path
    ELSE LET i == FindSlash(path)
             name == SubSeq(path, 2, i - 1)
             rest == SubSeq(path, i, Len(path))
         IN  IF i = 2
             THEN (IF RStripSlash(HOME) \o rest = <<>> THEN <<"/">> ELSE RStripSlash(HOME) \o rest)
             ELSE IF name \notin DOMAIN PwdHomes THEN path
             ELSE (IF RStripSlash(PwdHomes[name]) \o rest = <<>> THEN <<"/">>
                   ELSE RStripSlash(PwdHomes[name]) \o rest)

\* os.path.join(a, b)
join(a, b) ==
    IF StartsWith(b, <<"/">>) THEN b
    ELSE IF a = <<>> \/ a[Len(a)] = "/" THEN a \o b
    ELSE a \o <<"/">> \o b

----------------------------------------------------------------------------
(* downloader.py: YouTubeDownloader *)

\* validate_url requiring both markers
validate_url_And(url) == Contains(url, S_youtube_com) /\ Contains(url, S_youtu_be)

validate_url(url) == Contains(url, S_youtube_com) \/ Contains(url, S_youtu_be)

\* one call that leaves the program: the file system or the yt_dlp library
Event(ev, arg, o) == [ev |-> ev, arg |-> arg, opts |-> o]

\* what ydl.extract_info(url, download=False) can do: raise (in the
\* constructor or in the extraction), return None, or return a mapping
\* holding any subset of the three fields
InfoFields == {"title", "duration", "uploader"}
ExternalInfo(k) ==
    CASE k = "title" -> PyStr(<<"T">>)
      [] k = "duration" -> PyInt(180)
      [] k = "uploader" -> PyStr(<<"C">>)
ExtractOutcomes ==
    {[how |-> h, has |-> {}] : h \in {"ctor_raises", "raises", "none"}}
    \cup {[how |-> "info", has |-> S] : S \in SUBSET InfoFields}

\* get_video_info with "Unknown" as the default of every field, duration included
get_video_info_DurationUnknown(url, x) ==
    LET ctor == Event("YoutubeDL", <<>>, [k \in {"quiet"} |-> PyBool(TRUE)])
        extract == Event("extract_info", url, EmptyMap)
    IN  IF x.how = "ctor_raises"
        THEN [ret |-> PyNone, printed |-> <<"Error getting video info">>, trace |-> <<ctor>>]
        ELSE IF x.how \in {"raises", "none"}
        THEN [ret |-> PyNone, printed |-> <<"Error getting video info">>,
              trace |-> <<ctor, extract>>]
        ELSE [ret |-> PyDict([k \in InfoFields |->
                        IF k \in x.has THEN ExternalInfo(k) ELSE PyStr(S_Unknown)]),
              printed |-> <<>>, trace |-> <<ctor, extract>>]

get_video_info(url, x) ==
    LET ctor == Event("YoutubeDL", <<>>, [k \in {"quiet"} |-> PyBool(TRUE)])
        extract == Event("extract_info", url, EmptyMap)
    IN  IF x.how = "ctor_raises"
        THEN [ret |-> PyNone, printed |-> <<"Error getting video info">>, trace |-> <<ctor>>]
        ELSE IF x.how \in {"raises", "none"}
        THEN [ret |-> PyNone, printed |-> <<"Error getting video info">>,
              trace |-> <<ctor, extract>>]
        ELSE [ret |-> PyDict([k \in InfoFields |->
                        IF k \in x.has THEN ExternalInfo(k)
                        ELSE IF k = "duration" THEN PyInt(0) ELSE PyStr(S_Unknown)]),
              printed |-> <<>>, trace |-> <<ctor, extract>>]

\* ConfigManager.get_download_path
get_download_path(self_config) ==
    IF self_config.t # "dict" THEN [exc |-> "TypeError", ret |-> <<>>]
    ELSE IF "download_path" \notin DOMAIN self_config.m THEN [exc |-> "KeyError", ret |-> <<>>]
    ELSE IF self_config.m["download_path"].t # "str" THEN [exc |-> "TypeError", ret |-> <<>>]
    ELSE [exc |-> "none", ret |-> expanduser(self_config.m["download_path"].s)]

\* ydl_opts with the bitrate hard-wired instead of read from the settings
ydl_opts_FixedQuality(download_path, c) ==
    [k \in {"format", "outtmpl", "postprocessors.key", "postprocessors.preferredcodec",
            "postprocessors.preferredquality", "extractaudio", "audioformat", "keepvideo"} |->
        CASE k = "format" -> PyStr(S_Format)
          [] k = "outtmpl" -> PyStr(join(download_path, c["filename_format"].s))
          [] k = "postprocessors.key" -> PyStr(S_FFmpegExtractAudio)
          [] k = "postprocessors.preferredcodec" -> PyStr(S_mp3)
          [] k = "postprocessors.preferredquality" -> PyStr(S_192)
          [] k = "extractaudio" -> PyBool(TRUE)
          [] k = "audioformat" -> PyStr(S_mp3)
          [] k = "keepvideo" -> IF "keep_video" \in DOMAIN c THEN c["keep_video"]
                                ELSE PyBool(FALSE)]

\* the ydl_opts dictionary of download(), the nested postprocessor entry flattened
ydl_opts(download_path, c) ==
    [k \in {"format", "outtmpl", "postprocessors.key", "postprocessors.preferredcodec",
            "postprocessors.preferredquality", "extractaudio", "audioformat", "keepvideo"} |->
        CASE k = "format" -> PyStr(S_Format)
          [] k = "outtmpl" -> PyStr(join(download_path, c["filename_format"].s))
          [] k = "postprocessors.key" -> PyStr(S_FFmpegExtractAudio)
          [] k = "postprocessors.preferredcodec" -> PyStr(S_mp3)
          [] k = "postprocessors.preferredquality" -> c["audio_quality"]
          [] k = "extractaudio" -> PyBool(TRUE)
          [] k = "audioformat" -> PyStr(S_mp3)
          [] k = "keepvideo" -> IF "keep_video" \in DOMAIN c THEN c["keep_video"]
                                ELSE PyBool(FALSE)]

MkdirOutcomes == {"ok", "fails"}
YdlOutcomes == {"ok", "ctor_raises", "raises"}

\* Ctrl-C while ydl.download runs: KeyboardInterrupt is not an Exception, so
\* the except clause of download() lets it through
CliYdlOutcomes == YdlOutcomes \cup {"interrupted"}

\* the part of download() after the target directory is known to exist
download_fetch(self_config, ds, url, path, pre, ydl) ==
    LET c == self_config.m
    IN  IF "filename_format" \notin DOMAIN c
        THEN [ret |-> PyNone, exc |-> "KeyError", printed |-> <<>>, trace |-> pre, dirs |-> ds]
        ELSE IF c["filename_format"].t # "str"
        THEN [ret |-> PyNone, exc |-> "TypeError", printed |-> <<>>, trace |-> pre, dirs |-> ds]
        ELSE IF "audio_quality" \notin DOMAIN c
        THEN [ret |-> PyNone, exc |-> "KeyError", printed |-> <<>>, trace |-> pre, dirs |-> ds]
        ELSE LET ctor == Event("YoutubeDL", <<>>, ydl_opts(path, c))
                 dl == Event("ydl.download", url, EmptyMap)
             IN  IF ydl = "ctor_raises"
                 THEN [ret |-> PyBool(FALSE), exc |-> "none",
                       printed |-> <<"Error downloading video">>,
                       trace |-> pre \o <<ctor>>, dirs |-> ds]
                 ELSE IF ydl = "raises"
                 THEN [ret |-> PyBool(FALSE), exc |-> "none",
                       printed |-> <<"Downloading to", "Error downloading video">>,
                       trace |-> pre \o <<ctor, dl>>, dirs |-> ds]
                 ELSE IF ydl = "interrupted"
                 THEN [ret |-> PyNone, exc |-> "KeyboardInterrupt",
                       printed |-> <<"Downloading to">>,
                       trace |-> pre \o <<ctor, dl>>, dirs |-> ds]
                 ELSE [ret |-> PyBool(TRUE), exc |-> "none",
                       printed |-> <<"Downloading to", "Download completed successfully!">>,
                       trace |-> pre \o <<ctor, dl>>, dirs |-> ds]

\* download with the URL check moved behind the directory handling
download_ValidateLate(self_config, ds, url, mk, ydl) ==
    LET p == get_download_path(self_config)
        exists == Event("os.path.exists", p.ret, EmptyMap)
        makedirs == Event("os.makedirs", p.ret, EmptyMap)
        invalid(tr, d) == [ret |-> PyBool(FALSE), exc |-> "none",
                           printed |-> <<"Error: Invalid YouTube URL">>,
                           trace |-> tr, dirs |-> d]
    IN  IF p.exc # "none"
        THEN [ret |-> PyNone, exc |-> p.exc, printed |-> <<>>, trace |-> <<>>, dirs |-> ds]
        ELSE IF p.ret \in ds
        THEN (IF validate_url(url)
              THEN download_fetch(self_config, ds, url, p.ret, <<exists>>, ydl)
              ELSE invalid(<<exists>>, ds))
        ELSE IF mk = "fails"
        THEN [ret |-> PyBool(FALSE), exc |-> "none",
              printed |-> <<"Error creating download directory">>,
              trace |-> <<exists, makedirs>>, dirs |-> ds]
        ELSE (IF validate_url(url)
              THEN download_fetch(self_config, ds \cup {p.ret}, url, p.ret,
                                  <<exists, makedirs>>, ydl)
              ELSE invalid(<<exists, makedirs>>, ds \cup {p.ret}))

\* download that reports a failed directory creation and carries on
download_MkdirFailureIgnored(self_config, ds, url, mk, ydl) ==
    IF ~validate_url(url)
    THEN [ret |-> PyBool(FALSE), exc |-> "none", printed |-> <<"Error: Invalid YouTube URL">>,
          trace |-> <<>>, dirs |-> ds]
    ELSE LET p == get_download_path(self_config)
         IN  IF p.exc # "none"
             THEN [ret |-> PyNone, exc |-> p.exc, printed |-> <<>>, trace |-> <<>>, dirs |-> ds]
             ELSE LET exists == Event("os.path.exists", p.ret, EmptyMap)
                      makedirs == Event("os.makedirs", p.ret, EmptyMap)
                  IN  IF p.ret \in ds
                      THEN download_fetch(self_config, ds, url, p.ret, <<exists>>, ydl)
                      ELSE download_fetch(self_config,
                                          IF mk = "fails" THEN ds ELSE ds \cup {p.ret},
                                          url, p.ret, <<exists, makedirs>>, ydl)

download(self_config, ds, url, mk, ydl) ==
    IF ~validate_url(url)
    THEN [ret |-> PyBool(FALSE), exc |-> "none", printed |-> <<"Error: Invalid YouTube URL">>,
          trace |-> <<>>, dirs |-> ds]
    ELSE LET p == get_download_path(self_config)
         IN  IF p.exc # "none"
             THEN [ret |-> PyNone, exc |-> p.exc, printed |-> <<>>, trace |-> <<>>, dirs |-> ds]
             ELSE LET exists == Event("os.path.exists", p.ret, EmptyMap)
                      makedirs == Event("os.makedirs", p.ret, EmptyMap)
                  IN  IF p.ret \in ds
                      THEN download_fetch(self_config, ds, url, p.ret, <<exists>>, ydl)
                      ELSE IF mk = "fails"
                      THEN [ret |-> PyBool(FALSE), exc |-> "none",
                            printed |-> <<"Error creating download directory">>,
                            trace |-> <<exists, makedirs>>, dirs |-> ds]
                      ELSE download_fetch(self_config, ds \cup {p.ret}, url, p.ret,
                                          <<exists, makedirs>>, ydl)

----------------------------------------------------------------------------
(* str.strip() and str.lower() *)

Whitespace == {" ", "\t"}

RECURSIVE LStrip(_)
LStrip(s) == IF s # <<>> /\ s[1] \in Whitespace THEN LStrip(Tail(s)) ELSE s

RECURSIVE RStrip(_)
RStrip(s) ==
    IF s # <<>> /\ s[Len(s)] \in Whitespace THEN RStrip(SubSeq(s, 1, Len(s) - 1)) ELSE s

Strip(s) == RStrip(LStrip(s))

UpperLetters == <<"A", "B", "C", "D", "E", "F", "G", "H", "I", "J", "K", "L", "M",
                  "N", "O", "P", "Q", "R", "S", "T", "U", "V", "W", "X", "Y", "Z">>
LowerLetters == <<"a", "b", "c", "d", "e", "f", "g", "h", "i", "j", "k", "l", "m",
                  "n", "o", "p", "q", "r", "s", "t", "u", "v", "w", "x", "y", "z">>

LowerChar(c) ==
    IF \E i \in 1..26 : UpperLetters[i] = c
    THEN LowerLetters[CHOOSE i \in 1..26 : UpperLetters[i] = c]
    ELSE c

Lower(s) == [i \in 1..Len(s) |-> LowerChar(s[i])]

----------------------------------------------------------------------------
(* cli.py: CLI, and main() of yt2mp3.py *)

ExitKeywords == {<<"q", "u", "i", "t">>, <<"e", "x", "i", "t">>, <<"q">>}
YesAnswers == {<<"y">>, <<"y", "e", "s">>}

\* what one input() call can deliver: a line, Ctrl-C, or end of input
Line(s) == [kind |-> "line", s |-> s]
Interrupt == [kind |-> "interrupt", s |-> <<>>]
Eof == [kind |-> "eof", s |-> <<>>]
NoInput == [kind |-> "unused", s |-> <<>>]

InputExc(in) ==
    IF in.kind = "interrupt" THEN "KeyboardInterrupt"
    ELSE IF in.kind = "eof" THEN "EOFError"
    ELSE "none"

\* the running state threaded through the statements of a method
St(c, f, ds, pr, tr, e) ==
    [config |-> c, file |-> f, dirs |-> ds, printed |-> pr, trace |-> tr, exc |-> e]

KeyOrder == <<"download_path", "audio_quality", "filename_format", "keep_video">>

\* ConfigManager.show_config, the listing in a fixed key order
show_config(st) ==
    IF st.config.t # "dict"
    THEN [st EXCEPT !.exc = "AttributeError"]
    ELSE [st EXCEPT !.printed = st.printed \o <<"Current configuration:">>
                        \o SelectSeq(KeyOrder, LAMBDA k : k \in DOMAIN st.config.m)]

\* self.config_manager.update_setting(key, value) followed by the print after it
cli_update(st, key, value, w, msg) ==
    IF st.exc # "none" THEN st
    ELSE LET r == update_setting(st.config, st.file, key, value, w)
         IN  IF r.exc # "none" THEN [st EXCEPT !.exc = r.exc]
             ELSE [st EXCEPT !.config = r.config, !.file = r.file,
                             !.printed = st.printed \o r.printed \o <<msg>>]

\* the --set-download-path block of handle_config_commands
set_download_path(st, arg, in, mk, w) ==
    LET path == expanduser(arg)
        isdir == Event("os.path.isdir", path, EmptyMap)
        ask == Event("input:create", in.s, EmptyMap)
        makedirs == Event("os.makedirs", path, EmptyMap)
    IN  IF path \in st.dirs
        THEN cli_update([st EXCEPT !.trace = st.trace \o <<isdir, makedirs>>],
                        "download_path", PyStr(arg), w, "Download path updated to")
        ELSE IF in.kind # "line"
        THEN [st EXCEPT !.trace = st.trace \o <<isdir, ask>>, !.exc = InputExc(in)]
        ELSE IF Lower(in.s) \notin YesAnswers
        THEN [st EXCEPT !.trace = st.trace \o <<isdir, ask>>]
        ELSE IF mk = "fails"
        THEN [st EXCEPT !.trace = st.trace \o <<isdir, ask, makedirs>>,
                        !.printed = st.printed \o <<"Error setting download path">>]
        ELSE cli_update([st EXCEPT !.trace = st.trace \o <<isdir, ask, makedirs>>,
                                   !.dirs = st.dirs \cup {path}],
                        "download_path", PyStr(arg), w, "Download path updated to")

\* True when the --set-download-path block reaches  config_changed = True
path_changed(st, arg, in, mk) ==
    \/ expanduser(arg) \in st.dirs
    \/ in.kind = "line" /\ Lower(in.s) \in YesAnswers /\ mk = "ok"

\* handle_config_commands(args): the state after it and the value it returns
handle_config_commands(st, a, in, mk, w1, w2, w3) ==
    IF a.show_config
    THEN [st |-> show_config(st), ret |-> TRUE]
    ELSE LET has_path == a.set_download_path.t = "str" /\ a.set_download_path.s # <<>>
             s1 == IF has_path THEN set_download_path(st, a.set_download_path.s, in, mk, w1)
                   ELSE st
             s2 == IF a.keep_video
                   THEN cli_update(s1, "keep_video", PyBool(TRUE), w2,
                                   "Video files will now be kept after MP3 conversion")
                   ELSE s1
             s3 == IF a.no_keep_video
                   THEN cli_update(s2, "keep_video", PyBool(FALSE), w3,
                                   "Video files will now be deleted after MP3 conversion (default)")
                   ELSE s2
             changed == \/ has_path /\ path_changed(st, a.set_download_path.s, in, mk)
                        \/ a.keep_video
                        \/ a.no_keep_video
         IN  [st |-> s3, ret |-> changed \/ a.set_download_path.t # "None"]

\* self.downloader.download(url) called from the command line layer
cli_download(st, url, mk, ydl) ==
    LET r == download(st.config, st.dirs, url, mk, ydl)
    IN  [st EXCEPT !.dirs = r.dirs, !.exc = r.exc,
                   !.printed = st.printed \o r.printed,
                   !.trace = st.trace \o <<Event("download", url, EmptyMap)>> \o r.trace]

\* main() treating an interrupt like any other error
ExitStatus_InterruptIsError(e) == IF e = "none" THEN 0 ELSE 1

\* main(): the exit status for the way CLI() / run() ended
ExitStatus(e) == IF e \in {"none", "KeyboardInterrupt"} THEN 0 ELSE 1

main_epilogue(st) ==
    IF st.exc = "none" THEN st.printed
    ELSE IF st.exc = "KeyboardInterrupt" THEN st.printed \o <<"Operation cancelled by user.">>
    ELSE st.printed \o <<"Unexpected error">>

\* CLI() and run() up to the end of the process or the entry into the prompt
\* loop; mode is "config", "link", "interactive" or "crashed"
run(cur_file, ds, a, w0, in, mk, w1, w2, w3, ydl) ==
    LET i == ConfigManager_init(cur_file, w0)
        st0 == St(i.config, i.file, ds, i.printed, <<>>, i.exc)
    IN  IF st0.exc # "none" THEN [st |-> st0, mode |-> "crashed"]
        ELSE LET h == handle_config_commands(st0, a, in, mk, w1, w2, w3)
             IN  IF h.st.exc # "none" THEN [st |-> h.st, mode |-> "crashed"]
                 ELSE IF h.ret THEN [st |-> h.st, mode |-> "config"]
                 ELSE IF a.link.t = "str" /\ a.link.s # <<>>
                 THEN [st |-> cli_download(h.st, a.link.s, mk, ydl), mode |-> "link"]
                 ELSE [st |-> [h.st EXCEPT !.printed = h.st.printed \o
                                  <<"YouTube to MP3 Converter - Interactive Mode",
                                    "========================================">>],
                       mode |-> "interactive"]

\* interactive_mode comparing the typed line with the exit keywords without lower()
interactive_iteration_CaseSensitive(st, in1, x, in2, mk, ydl) ==
    LET url == Strip(in1.s)
        s1 == [st EXCEPT !.trace = st.trace \o <<Event("input:url", in1.s, EmptyMap)>>]
    IN  IF in1.kind # "line" THEN [st |-> [s1 EXCEPT !.exc = InputExc(in1)], next |-> "raise"]
        ELSE IF url \in ExitKeywords
        THEN [st |-> [s1 EXCEPT !.printed = s1.printed \o <<"Goodbye!">>], next |-> "break"]
        ELSE IF url = <<>>
        THEN [st |-> [s1 EXCEPT !.printed = s1.printed \o <<"Please enter a valid URL.">>],
              next |-> "loop"]
        ELSE LET g == get_video_info(url, x)
                 s2 == [s1 EXCEPT
                          !.trace = s1.trace \o <<Event("get_video_info", url, EmptyMap)>>
                                    \o g.trace \o <<Event("input:confirm", in2.s, EmptyMap)>>,
                          !.printed = s1.printed \o g.printed \o
                                      (IF g.ret # PyNone THEN <<"Video", "Uploader", "Duration">>
                                       ELSE <<"Could not retrieve video information. Try downloading anyway? (y/n): ">>)]
             IN  IF in2.kind # "line"
                 THEN [st |-> [s2 EXCEPT !.exc = InputExc(in2)], next |-> "raise"]
                 ELSE IF Lower(Strip(in2.s)) \in YesAnswers
                 THEN LET d == cli_download(s2, url, mk, ydl)
                      IN  [st |-> d, next |-> IF d.exc = "none" THEN "loop" ELSE "raise"]
                 ELSE IF g.ret # PyNone
                 THEN [st |-> [s2 EXCEPT !.printed = s2.printed \o <<"Download cancelled.">>],
                       next |-> "loop"]
                 ELSE [st |-> s2, next |-> "loop"]

\* interactive_mode downloading without a question when no metadata came back
interactive_iteration_NoInfoNoQuestion(st, in1, x, in2, mk, ydl) ==
    LET url == Strip(in1.s)
        s1 == [st EXCEPT !.trace = st.trace \o <<Event("input:url", in1.s, EmptyMap)>>]
    IN  IF in1.kind # "line" THEN [st |-> [s1 EXCEPT !.exc = InputExc(in1)], next |-> "raise"]
        ELSE IF Lower(url) \in ExitKeywords
        THEN [st |-> [s1 EXCEPT !.printed = s1.printed \o <<"Goodbye!">>], next |-> "break"]
        ELSE IF url = <<>>
        THEN [st |-> [s1 EXCEPT !.printed = s1.printed \o <<"Please enter a valid URL.">>],
              next |-> "loop"]
        ELSE LET g == get_video_info(url, x)
                 s2 == [s1 EXCEPT
                          !.trace = s1.trace \o <<Event("get_video_info", url, EmptyMap)>>
                                    \o g.trace,
                          !.printed = s1.printed \o g.printed]
                 s3 == [s2 EXCEPT
                          !.trace = s2.trace \o <<Event("input:confirm", in2.s, EmptyMap)>>,
                          !.printed = s2.printed \o <<"Video", "Uploader", "Duration">>]
             IN  IF g.ret = PyNone
                 THEN LET d == cli_download(s2, url, mk, ydl)
                      IN  [st |-> d, next |-> IF d.exc = "none" THEN "loop" ELSE "raise"]
                 ELSE IF in2.kind # "line"
                 THEN [st |-> [s3 EXCEPT !.exc = InputExc(in2)], next |-> "raise"]
                 ELSE IF Lower(Strip(in2.s)) \in YesAnswers
                 THEN LET d == cli_download(s3, url, mk, ydl)
                      IN  [st |-> d, next |-> IF d.exc = "none" THEN "loop" ELSE "raise"]
                 ELSE [st |-> [s3 EXCEPT !.printed = s3.printed \o <<"Download cancelled.">>],
                       next |-> "loop"]

\* one pass through the body of the while loop of interactive_mode;
\* next is "loop" (continue), "break" or "raise"
interactive_iteration(st, in1, x, in2, mk, ydl) ==
    LET url == Strip(in1.s)
        s1 == [st EXCEPT !.trace = st.trace \o <<Event("input:url", in1.s, EmptyMap)>>]
    IN  IF in1.kind # "line" THEN [st |-> [s1 EXCEPT !.exc = InputExc(in1)], next |-> "raise"]
        ELSE IF Lower(url) \in ExitKeywords
        THEN [st |-> [s1 EXCEPT !.printed = s1.printed \o <<"Goodbye!">>], next |-> "break"]
        ELSE IF url = <<>>
        THEN [st |-> [s1 EXCEPT !.printed = s1.printed \o <<"Please enter a valid URL.">>],
              next |-> "loop"]
        ELSE LET g == get_video_info(url, x)
                 s2 == [s1 EXCEPT
                          !.trace = s1.trace \o <<Event("get_video_info", url, EmptyMap)>>
                                    \o g.trace \o <<Event("input:confirm", in2.s, EmptyMap)>>,
                          !.printed = s1.printed \o g.printed \o
                                      (IF g.ret # PyNone THEN <<"Video", "Uploader", "Duration">>
                                       ELSE <<"Could not retrieve video information. Try downloading anyway? (y/n): ">>)]
             IN  IF in2.kind # "line"
                 THEN [st |-> [s2 EXCEPT !.exc = InputExc(in2)], next |-> "raise"]
                 ELSE IF Lower(Strip(in2.s)) \in YesAnswers
                 THEN LET d == cli_download(s2, url, mk, ydl)
                      IN  [st |-> d, next |-> IF d.exc = "none" THEN "loop" ELSE "raise"]
                 ELSE IF g.ret # PyNone
                 THEN [st |-> [s2 EXCEPT !.printed = s2.printed \o <<"Download cancelled.">>],
                       next |-> "loop"]
                 ELSE [st |-> s2, next |-> "loop"]

----------------------------------------------------------------------------
(* Inputs *)

Keys == {"download_path", "audio_quality", "filename_format", "keep_video"}

P_TildeM == <<"~", "/", "m">>
P_AbsM == <<"/", "m">>
P_RelM == <<"m">>

\* (key, value) pairs passed to update_setting: the two settings the command
\* line changes, the two it never changes, and a value of the wrong type
Updates ==
    {<<"download_path", PyStr(P_TildeM)>>, <<"download_path", PyStr(P_RelM)>>,
     <<"download_path", PyBool(TRUE)>>,
     <<"keep_video", PyBool(TRUE)>>, <<"keep_video", PyBool(FALSE)>>,
     <<"audio_quality", PyStr(S_320)>>, <<"filename_format", PyStr(S_AbsTemplate)>>}

CustomConfig ==
    PyDict([k \in Keys |->
        CASE k = "download_path" -> PyStr(P_TildeM)
          [] k = "audio_quality" -> PyStr(S_320)
          [] k = "filename_format" -> PyStr(S_XTitleExt)
          [] k = "keep_video" -> PyBool(TRUE)])

PathOnlyConfig == PyDict([k \in {"download_path"} |-> PyStr(P_AbsM)])

SaveArgs == {NoArg, get_default_config, CustomConfig, PathOnlyConfig, PyDict(EmptyMap)}

InitialFiles ==
    {Absent, Undecodable, Malformed, Unreadable, JsonDump(PyList)}
    \cup {JsonDump(c) : c \in SaveArgs \ {NoArg}}

InitialDirs == {{}, {HOME \o <<"/">> \o S_Downloads}, {HOME \o <<"/">> \o S_Downloads, HOME \o <<"/", "m">>, P_AbsM}}

\* URL strings: the two host markers alone and embedded, near misses of
\* each marker, another host, and the empty string
U_Watch == <<"h", ":">> \o S_youtube_com \o <<"/", "x">>
U_Short == <<"h", ":">> \o S_youtu_be \o <<"/", "x">>
U_Vimeo == <<"v", "i", "m", "e", "o", ".", "c", "o", "m">>
U_Upper == <<"Y", "O", "U", "T", "U", "B", "E", ".", "C", "O", "M">>

Urls ==
    {<<>>, S_youtube_com, S_youtu_be, U_Watch, U_Short, U_Vimeo, U_Upper,
     SubSeq(S_youtube_com, 1, 10), SubSeq(S_youtube_com, 2, 11), SubSeq(S_youtu_be, 1, 7),
     SubSeq(S_youtu_be, 2, 8), SubSeq(S_youtube_com, 1, 7),
     <<"y", "o", "u", "t", "u", "b", "e", "c", "o", "m">>,
     <<"y", "o", "u", "t", "u", "b", "e">> \o <<".">> \o <<"b", "e">>,
     S_youtu_be \o S_youtube_com,
     SubSeq(S_youtube_com, 1, 7) \o S_youtu_be,
     <<"x">> \o S_youtu_be \o <<"e">>}

DownloadUrls == {U_Watch, U_Short, U_Vimeo, <<>>}
InfoUrls == {U_Watch, U_Vimeo}

\* lines typed at the three prompts
UrlInputs ==
    {Line(<<>>), Line(<<" ">>), Line(<<"q", "u", "i", "t">>), Line(<<"Q", "U", "I", "T">>),
     Line(<<" ", "q", " ">>), Line(<<"E", "x", "i", "t">>), Line(<<"q", "u">>),
     Line(<<" ">> \o U_Short \o <<" ">>), Line(U_Vimeo), Interrupt, Eof}
ConfirmInputs ==
    {Line(<<"Y", "E", "S">>), Line(<<" ", "y", " ">>), Line(<<"n">>), Line(<<"y", "e">>),
     Interrupt, Eof}
CreateInputs ==
    {Line(<<"y">>), Line(<<"Y", "e", "s">>), Line(<<" ", "y">>), Line(<<"n">>), Interrupt, Eof}

CliExtractOutcomes ==
    {x \in ExtractOutcomes : x.how = "raises" \/ (x.how = "info" /\ x.has \in {{}, InfoFields})}

\* the namespaces parse_arguments can return
Namespace(link, path, show, keep, nokeep) ==
    [link |-> link, set_download_path |-> path, show_config |-> show,
     keep_video |-> keep, no_keep_video |-> nokeep]

ArgSets ==
    {Namespace(l, p, sh, k, nk) :
        l \in {PyNone, PyStr(U_Watch), PyStr(U_Vimeo), PyStr(<<>>)},
        p \in {PyNone, PyStr(P_TildeM), PyStr(P_RelM), PyStr(<<>>)},
        sh \in BOOLEAN, k \in BOOLEAN, nk \in BOOLEAN}

NoCall == [op |-> "none"]
NoArgs == Namespace(PyNone, PyNone, FALSE, FALSE, FALSE)

----------------------------------------------------------------------------
(* The store and the downloader driven through their public methods *)

Init ==
    /\ file \in InitialFiles
    /\ config = Unset
    /\ dirs \in InitialDirs
    /\ call = NoCall
    /\ ret = PyNone
    /\ exc = "none"
    /\ printed = <<>>
    /\ trace = <<>>
    /\ nops = 0
    /\ pc = "api"
    /\ args = NoArgs
    /\ exit_code = -1

\* cm = ConfigManager(config_file)
Construct ==
    /\ nops < MaxOps
    /\ \E w \in WriteOutcomes :
        \E r \in {ConfigManager_init(file, w)} :
            /\ file' = r.file
            /\ config' = r.config
            /\ printed' = r.printed
            /\ exc' = r.exc
            /\ call' = [op |-> "init", file |-> file, config |-> config, write |-> w]
    /\ ret' = PyNone
    /\ trace' = <<>>
    /\ nops' = nops + 1
    /\ UNCHANGED <<dirs, pc, args, exit_code>>

\* cm.save_config(given) / cm.save_config()
SaveConfig ==
    /\ nops < MaxOps
    /\ config # Unset
    /\ \E given \in SaveArgs, w \in WriteOutcomes :
        \E r \in {save_config(config, file, given, w)} :
            /\ file' = r.file
            /\ config' = r.config
            /\ printed' = r.printed
            /\ call' = [op |-> "save_config", file |-> file, config |-> config,
                        given |-> given, write |-> w]
    /\ exc' = "none"
    /\ ret' = PyNone
    /\ trace' = <<>>
    /\ nops' = nops + 1
    /\ UNCHANGED <<dirs, pc, args, exit_code>>

\* cm.update_setting(key, value)
UpdateSetting ==
    /\ nops < MaxOps
    /\ config # Unset
    /\ \E kv \in Updates, w \in WriteOutcomes :
        \E key \in {kv[1]}, value \in {kv[2]} :
        \E r \in {update_setting(config, file, key, value, w)} :
            /\ file' = r.file
            /\ config' = r.config
            /\ printed' = r.printed
            /\ exc' = r.exc
            /\ call' = [op |-> "update_setting", file |-> file, config |-> config,
                        key |-> key, value |-> value, write |-> w]
    /\ ret' = PyNone
    /\ trace' = <<>>
    /\ nops' = nops + 1
    /\ UNCHANGED <<dirs, pc, args, exit_code>>

\* cm.get_download_path()
GetDownloadPath ==
    /\ nops < MaxOps
    /\ config # Unset
    /\ \E r \in {get_download_path(config)} :
           /\ ret' = IF r.exc = "none" THEN PyStr(r.ret) ELSE PyNone
           /\ exc' = r.exc
    /\ call' = [op |-> "get_download_path", config |-> config]
    /\ printed' = <<>>
    /\ trace' = <<>>
    /\ nops' = nops + 1
    /\ UNCHANGED <<file, config, dirs, pc, args, exit_code>>

\* downloader.validate_url(url)
ValidateUrl ==
    /\ nops < MaxOps
    /\ config # Unset
    /\ \E url \in Urls :
        /\ ret' = PyBool(validate_url(url))
        /\ call' = [op |-> "validate_url", url |-> url]
    /\ exc' = "none"
    /\ printed' = <<>>
    /\ trace' = <<>>
    /\ nops' = nops + 1
    /\ UNCHANGED <<file, config, dirs, pc, args, exit_code>>

\* downloader.get_video_info(url)
GetVideoInfo ==
    /\ nops < MaxOps
    /\ config # Unset
    /\ \E url \in InfoUrls, x \in ExtractOutcomes :
        \E r \in {get_video_info(url, x)} :
            /\ ret' = r.ret
            /\ printed' = r.printed
            /\ trace' = r.trace
            /\ call' = [op |-> "get_video_info", url |-> url, outcome |-> x]
    /\ exc' = "none"
    /\ nops' = nops + 1
    /\ UNCHANGED <<file, config, dirs, pc, args, exit_code>>

\* downloader.download(url)
Download ==
    /\ nops < MaxOps
    /\ config # Unset
    /\ \E url \in DownloadUrls, mk \in MkdirOutcomes, ydl \in YdlOutcomes :
        \E r \in {download(config, dirs, url, mk, ydl)} :
            /\ ret' = r.ret
            /\ exc' = r.exc
            /\ printed' = r.printed
            /\ trace' = r.trace
            /\ dirs' = r.dirs
            /\ call' = [op |-> "download", url |-> url, config |-> config, dirs |-> dirs,
                        mkdir |-> mk, ydl |-> ydl]
    /\ nops' = nops + 1
    /\ UNCHANGED <<file, config, pc, args, exit_code>>

Next ==
    \/ Construct
    \/ SaveConfig
    \/ UpdateSetting
    \/ GetDownloadPath
    \/ ValidateUrl
    \/ GetVideoInfo
    \/ Download

Spec == Init /\ [][Next]_vars

----------------------------------------------------------------------------
(* The program run from the command line: main() of yt2mp3.py *)

InitCli ==
    /\ file \in InitialFiles
    /\ config = Unset
    /\ dirs \in InitialDirs
    /\ call = NoCall
    /\ ret = PyNone
    /\ exc = "none"
    /\ printed = <<>>
    /\ trace = <<>>
    /\ nops = 0
    /\ pc = "start"
    /\ args \in ArgSets
    /\ exit_code = -1

\* a set of outcomes to choose from, or one fixed value when the choice is not used
Choose(needed, S, d) == IF needed THEN S ELSE {d}

\* main(): cli = CLI(); cli.run(), up to the exit or the first prompt of the loop
RunMain ==
    /\ pc = "start"
    /\ LET has_path == args.set_download_path.t = "str" /\ args.set_download_path.s # <<>>
           config_mode == \/ args.show_config \/ args.keep_video \/ args.no_keep_video
                          \/ args.set_download_path.t = "str"
       IN  \E w0 \in Choose(file.kind = "absent", WriteOutcomes, "ok"),
              in \in Choose(has_path /\ ~args.show_config, CreateInputs, NoInput),
              mk \in Choose((has_path /\ ~args.show_config)
                            \/ (~config_mode /\ args.link.t = "str"), MkdirOutcomes, "ok"),
              w1 \in Choose(has_path /\ ~args.show_config, WriteOutcomes, "ok"),
              w2 \in Choose(args.keep_video /\ ~args.show_config, WriteOutcomes, "ok"),
              w3 \in Choose(args.no_keep_video /\ ~args.show_config, WriteOutcomes, "ok"),
              ydl \in Choose(~config_mode /\ args.link.t = "str", CliYdlOutcomes, "ok") :
            \E r \in {run(file, dirs, args, w0, in, mk, w1, w2, w3, ydl)} :
                /\ file' = r.st.file
                /\ config' = r.st.config
                /\ dirs' = r.st.dirs
                /\ trace' = r.st.trace
                /\ exc' = r.st.exc
                /\ call' = [op |-> "run", mode |-> r.mode, file |-> file, dirs |-> dirs,
                            in |-> in, mkdir |-> mk, ydl |-> ydl]
                /\ IF r.mode = "interactive"
                   THEN /\ pc' = "interactive"
                        /\ exit_code' = -1
                        /\ printed' = r.st.printed
                   ELSE /\ pc' = "exited"
                        /\ exit_code' = ExitStatus(r.st.exc)
                        /\ printed' = main_epilogue(r.st)
    /\ ret' = PyNone
    /\ UNCHANGED <<nops, args>>

\* one iteration of the while loop of interactive_mode, and the end of main()
\* when the loop is left
Iterate ==
    /\ pc = "interactive"
    /\ nops < MaxIter
    /\ \E in1 \in UrlInputs :
        LET asks == in1.kind = "line" /\ Strip(in1.s) # <<>>
                    /\ Lower(Strip(in1.s)) \notin ExitKeywords
        IN  \E x \in Choose(asks, CliExtractOutcomes, [how |-> "none", has |-> {}]),
               in2 \in Choose(asks, ConfirmInputs, NoInput) :
            LET yes == asks /\ in2.kind = "line" /\ Lower(Strip(in2.s)) \in YesAnswers
            IN  \E mk \in Choose(yes, MkdirOutcomes, "ok"), ydl \in Choose(yes, CliYdlOutcomes, "ok") :
                \E r \in {interactive_iteration(St(config, file, dirs, <<>>, <<>>, "none"),
                                                in1, x, in2, mk, ydl)} :
                    /\ dirs' = r.st.dirs
                    /\ trace' = r.st.trace
                    /\ exc' = r.st.exc
                    /\ call' = [op |-> "iteration", in1 |-> in1, in2 |-> in2, next |-> r.next,
                                outcome |-> x, ydl |-> ydl]
                    /\ IF r.next = "loop"
                       THEN /\ pc' = "interactive"
                            /\ exit_code' = -1
                            /\ printed' = r.st.printed
                       ELSE /\ pc' = "exited"
                            /\ exit_code' = ExitStatus(r.st.exc)
                            /\ printed' = main_epilogue(r.st)
    /\ ret' = PyNone
    /\ nops' = nops + 1
    /\ UNCHANGED <<file, config, args>>

NextCli ==
    \/ RunMain
    \/ Iterate

SpecCli == InitCli /\ [][NextCli]_vars

----------------------------------------------------------------------------
(* Properties of the settings store *)

Has(c, k, v) == c.t = "dict" /\ k \in DOMAIN c.m /\ c.m[k] = v

\* the settings file, read back, is a JSON object holding k with value v
FileHas(f, k, v) == f.kind = "object" /\ Has(JsonLoad(f), k, v)

Printed(msg) == \E i \in 1..Len(printed) : printed[i] = msg

\* C1 as stated: after update_setting(key, value) returns, the value is
\* visible in memory and in the settings file read back, whatever the prior
\* state of the store.
C1_VisibleInMemoryAndFile ==
    (call.op = "update_setting" /\ exc = "none") =>
        /\ Has(config, call.key, call.value)
        /\ FileHas(file, call.key, call.value)

\* C1 amended: after update_setting(key, value) returns, the value is visible
\* in memory; it is visible in the settings file read back when the write of
\* the file succeeded, and a failed write is reported instead of raised.
C1_VisibleInMemoryAndFileWhenWritten ==
    (call.op = "update_setting" /\ exc = "none") =>
        /\ Has(config, call.key, call.value)
        /\ call.write = "ok" => FileHas(file, call.key, call.value)
        /\ call.write # "ok" => Printed("Error saving config")

C1_Witness ==
    /\ call.op = "update_setting"
    /\ exc = "none"
    /\ call.write = "ok"
    /\ call.key = "keep_video"
    /\ ~Has(call.config, call.key, call.value)
    /\ ~FileHas(call.file, call.key, call.value)
    /\ Has(config, call.key, call.value)
    /\ FileHas(file, call.key, call.value)

\* the defaults as documented: the home Downloads directory, "192",
\* "%(title)s.%(ext)s" and false
DocumentedDefaults ==
    PyDict([download_path |-> PyStr(<<"/", "h", "/", "D", "o", "w", "n", "l", "o", "a", "d", "s">>),
            audio_quality |-> PyStr(<<"1", "9", "2">>),
            filename_format |-> PyStr(S_TitleExt),
            keep_video |-> PyBool(FALSE)])

\* C4 as stated: loading when the settings file does not exist creates the
\* file, and the in-memory settings and the file content are the defaults.
C4_MissingFileCreated ==
    (call.op = "init" /\ call.file.kind = "absent") =>
        /\ exc = "none"
        /\ config = DocumentedDefaults
        /\ file.kind = "object"
        /\ JsonLoad(file) = DocumentedDefaults

\* C4 amended: loading when the settings file does not exist leaves the
\* documented defaults in memory; the file is created holding the defaults
\* when the write succeeds; when the write fails the failure is reported, no
\* exception escapes and no settings file with content results.
C4_MissingFileCreatedWhenWritten ==
    (call.op = "init" /\ call.file.kind = "absent") =>
        /\ exc = "none"
        /\ config = DocumentedDefaults
        /\ call.write = "ok" => (file.kind = "object" /\ JsonLoad(file) = DocumentedDefaults)
        /\ call.write # "ok" => (Printed("Error saving config")
                                 /\ file.kind \in {"absent", "malformed"})

C4_Witness ==
    /\ call.op = "init"
    /\ call.file.kind = "absent"
    /\ call.write = "ok"
    /\ file.kind = "object"
    /\ JsonLoad(file) = DocumentedDefaults
    /\ config = DocumentedDefaults

\* C5: loading a settings file that exists but cannot be parsed does not
\* crash: the in-memory settings are the defaults, the failure is reported
\* and the file is left as it was.
C5_CorruptFileFallsBack ==
    (call.op = "init" /\ call.file.kind \in {"malformed", "undecodable", "unreadable"}) =>
        /\ exc = "none"
        /\ config = DocumentedDefaults
        /\ Printed("Error loading config")
        /\ Printed("Using default configuration...")
        /\ file = call.file

\* C6: save_config(settings) never propagates an I/O failure; after a
\* successful write the file read back and the in-memory settings both equal
\* the mapping that was given; after a failed write the failure is reported
\* and the in-memory settings object is the one from before the call.
C6_SaveReportsAndKeeps ==
    call.op = "save_config" =>
        LET given == IF call.given = NoArg THEN call.config ELSE call.given
        IN  /\ exc = "none"
            /\ call.write = "ok" =>
                  (file.kind \in {"object", "array"} /\ JsonLoad(file) = given /\ config = given)
            /\ call.write # "ok" =>
                  (Printed("Error saving config") /\ config = call.config)

C6_Witness ==
    /\ call.op = "save_config"
    /\ call.write = "write_fails"
    /\ call.given = CustomConfig
    /\ call.config = DocumentedDefaults
    /\ config = DocumentedDefaults
    /\ Printed("Error saving config")

----------------------------------------------------------------------------
(* Properties of download() *)

ExternalEvents == {"YoutubeDL", "extract_info", "ydl.download"}

NoExternalCall(tr) == \A i \in 1..Len(tr) : tr[i].ev \notin ExternalEvents

\* C2: download(url) never raises: for every URL and every settings mapping
\* load_config can return it returns True or False.
C2_DownloadNeverRaises ==
    call.op = "download" => (exc = "none" /\ ret \in {PyBool(TRUE), PyBool(FALSE)})

\* C7: download(url) on a URL that validate_url rejects returns False without
\* calling the external library and before any directory check or creation.
C7_InvalidUrlRejectedFirst ==
    (call.op = "download" /\ ~validate_url(call.url)) =>
        /\ exc = "none"
        /\ ret = PyBool(FALSE)
        /\ trace = <<>>
        /\ dirs = call.dirs

C7_Witness ==
    /\ call.op = "download"
    /\ call.url = U_Vimeo
    /\ call.config = PyDict(EmptyMap)
    /\ call.dirs = {}
    /\ ret = PyBool(FALSE)
    /\ Printed("Error: Invalid YouTube URL")

Positions(tr, evs) == {i \in 1..Len(tr) : tr[i].ev \in evs}

\* C8: download(url) with a valid URL and a target directory that does not
\* exist attempts the creation exactly once and before any external call; a
\* failed creation gives False and no external call; an existing directory
\* gives no creation attempt.
C8_DirectoryCreatedOnce ==
    (call.op = "download" /\ validate_url(call.url)
        /\ get_download_path(call.config).exc = "none") =>
        LET path == get_download_path(call.config).ret
            made == Positions(trace, {"os.makedirs"})
        IN  /\ path \in call.dirs => made = {}
            /\ path \notin call.dirs =>
                /\ Cardinality(made) = 1
                /\ \A i \in made : trace[i].arg = path
                /\ \A i \in made, j \in Positions(trace, ExternalEvents) : i < j
                /\ call.mkdir = "fails" =>
                      (ret = PyBool(FALSE) /\ exc = "none" /\ NoExternalCall(trace)
                       /\ path \notin dirs)

C8_Witness ==
    /\ call.op = "download"
    /\ call.url = U_Watch
    /\ call.config = DocumentedDefaults
    /\ call.dirs = {}
    /\ call.mkdir = "fails"
    /\ ret = PyBool(FALSE)
    /\ Cardinality(Positions(trace, {"os.makedirs"})) = 1
    /\ Printed("Error creating download directory")

EndsWith(s, suffix) ==
    Len(s) >= Len(suffix) /\ SubSeq(s, Len(s) - Len(suffix) + 1, Len(s)) = suffix

\* C9: the options download passes to the external library are derived from
\* the current settings: codec "mp3", quality equal to audio_quality, output
\* template the expanded download path joined with filename_format verbatim,
\* keep flag equal to keep_video (false when the key is absent).
C9_OptionsFromSettings ==
    call.op = "download" =>
        \A i \in Positions(trace, {"YoutubeDL"}) :
            LET o == trace[i].opts
                c == call.config.m
            IN  /\ o["postprocessors.preferredcodec"] = PyStr(<<"m", "p", "3">>)
                /\ o["audioformat"] = PyStr(<<"m", "p", "3">>)
                /\ o["postprocessors.preferredquality"] = c["audio_quality"]
                /\ o["outtmpl"] = PyStr(join(expanduser(c["download_path"].s),
                                             c["filename_format"].s))
                /\ EndsWith(o["outtmpl"].s, c["filename_format"].s)
                /\ o["keepvideo"] = IF "keep_video" \in DOMAIN c THEN c["keep_video"]
                                    ELSE PyBool(FALSE)

C9_Witness ==
    /\ call.op = "download"
    /\ call.config = CustomConfig
    /\ ret = PyBool(TRUE)
    /\ \E i \in Positions(trace, {"YoutubeDL"}) :
        /\ trace[i].opts["postprocessors.preferredquality"] = PyStr(<<"3", "2", "0">>)
        /\ trace[i].opts["outtmpl"] = PyStr(<<"/", "h", "/", "m", "/", "X", "_">> \o S_TitleExt)
        /\ trace[i].opts["keepvideo"] = PyBool(TRUE)

\* the marker m occurs in url, character by character
OccursAt(url, m, i) == \A j \in 1..Len(m) : i + j - 1 <= Len(url) /\ url[i + j - 1] = m[j]
HasMarker(url) ==
    \E i \in 1..Len(url) :
        \/ OccursAt(url, <<"y", "o", "u", "t", "u", "b", "e", ".", "c", "o", "m">>, i)
        \/ OccursAt(url, <<"y", "o", "u", "t", "u", ".", "b", "e">>, i)

\* C10: validate_url(url) is true exactly when url contains "youtube.com" or
\* "youtu.be"; every other string, the empty one included, is rejected.
C10_ValidateUrlIffMarker ==
    call.op = "validate_url" => (ret = PyBool(HasMarker(call.url)))

C10_Witness ==
    /\ call.op = "validate_url"
    /\ call.url = <<"x">> \o S_youtu_be \o <<"e">>
    /\ ret = PyBool(TRUE)

----------------------------------------------------------------------------
(* Properties of the command line program *)

\* C3: invalid URLs are rejected before any external call: with --link and
\* in the prompt loop alike, a URL that validate_url rejects causes neither a
\* metadata extraction nor a download in the external library.
C3_InvalidUrlNoExternalCall ==
    /\ (call.op = "run" /\ call.mode = "link" /\ ~validate_url(args.link.s)) =>
            NoExternalCall(trace)
    /\ (call.op = "iteration" /\ call.in1.kind = "line" /\ ~validate_url(Strip(call.in1.s))) =>
            NoExternalCall(trace)

----------------------------------------------------------------------------
(* Properties of get_video_info() *)

\* C11: get_video_info(url) never propagates a failure of the external
\* library: a successful extraction gives a record with exactly title,
\* duration and uploader, with "Unknown", 0 and "Unknown" for the fields the
\* external result lacks; a failed extraction is reported and gives None.
C11_InfoNormalizedOrNone ==
    call.op = "get_video_info" =>
        /\ exc = "none"
        /\ call.outcome.how = "info" =>
            /\ ret.t = "dict"
            /\ DOMAIN ret.m = {"title", "duration", "uploader"}
            /\ \A k \in call.outcome.has : ret.m[k] = ExternalInfo(k)
            /\ "title" \notin call.outcome.has => ret.m["title"] = PyStr(<<"U", "n", "k", "n", "o", "w", "n">>)
            /\ "duration" \notin call.outcome.has => ret.m["duration"] = PyInt(0)
            /\ "uploader" \notin call.outcome.has => ret.m["uploader"] = PyStr(<<"U", "n", "k", "n", "o", "w", "n">>)
        /\ call.outcome.how # "info" =>
            /\ ret = PyNone
            /\ Printed("Error getting video info")

C11_Witness ==
    /\ call.op = "get_video_info"
    /\ call.outcome = [how |-> "info", has |-> {"title"}]
    /\ ret.t = "dict"
    /\ ret.m["title"] = PyStr(<<"T">>)
    /\ ret.m["duration"] = PyInt(0)
    /\ ret.m["uploader"] = PyStr(S_Unknown)

----------------------------------------------------------------------------
(* Properties of the prompt loop *)

IsBlank(s) == \A i \in 1..Len(s) : s[i] \in {" ", "\t"}

\* s without its leading and trailing blanks is one of the words, in any case
IsWord(s, words) ==
    \E a \in 0..Len(s), b \in 0..Len(s) :
        /\ a + b <= Len(s)
        /\ IsBlank(SubSeq(s, 1, a))
        /\ IsBlank(SubSeq(s, Len(s) - b + 1, Len(s)))
        /\ \E w \in words :
            /\ Len(w) = Len(s) - a - b
            /\ \A i \in 1..Len(w) :
                \E j \in 1..26 : LowerLetters[j] = w[i]
                                 /\ s[a + i] \in {LowerLetters[j], UpperLetters[j]}

\* C12: in interactive mode an empty or whitespace-only URL line prints the
\* prompt-for-valid-URL message and re-prompts without any metadata or
\* download call; the loop ends as soon as quit, exit or q (in any case) is
\* entered as the URL, with no download and no further prompt after it.
C12_EmptyRepromptsExitTerminates ==
    /\ [](call.op = "iteration" /\ call.in1.kind = "line" =>
            /\ IsBlank(call.in1.s) =>
                /\ Printed("Please enter a valid URL.")
                /\ pc = "interactive"
                /\ trace = <<Event("input:url", call.in1.s, EmptyMap)>>
            /\ IsWord(call.in1.s, {<<"q", "u", "i", "t">>, <<"e", "x", "i", "t">>, <<"q">>}) =>
                /\ Printed("Goodbye!")
                /\ pc = "exited"
                /\ exit_code = 0
                /\ trace = <<Event("input:url", call.in1.s, EmptyMap)>>)
    /\ [][pc # "exited"]_vars

C12_Witness ==
    /\ call.op = "iteration"
    /\ nops = 2
    /\ call.in1 = Line(<<"Q", "U", "I", "T">>)
    /\ pc = "exited"
    /\ exit_code = 0
    /\ trace = <<Event("input:url", <<"Q", "U", "I", "T">>, EmptyMap)>>

\* C13: in interactive mode download(url) is called only after the user was
\* asked to confirm for that URL and answered y or yes (in any case), with
\* or without metadata; any other answer gives no download call, and one
\* entered URL causes at most one download call.
C13_DownloadOnlyAfterYes ==
    call.op = "iteration" =>
        LET dl == Positions(trace, {"download"})
            asked == Positions(trace, {"input:confirm"})
        IN  /\ Cardinality(dl) <= 1
            /\ Cardinality(asked) <= 1
            /\ \A i \in dl :
                /\ trace[i].arg = Strip(call.in1.s)
                /\ \E j \in asked :
                    /\ j < i
                    /\ IsWord(trace[j].arg, {<<"y">>, <<"y", "e", "s">>})
                    /\ call.in2.kind = "line"
                    /\ call.in2.s = trace[j].arg
            /\ (call.in2.kind # "line" \/ ~IsWord(call.in2.s, {<<"y">>, <<"y", "e", "s">>})) =>
                    dl = {}

C13_Witness ==
    /\ call.op = "iteration"
    /\ call.outcome.how = "raises"
    /\ call.in2 = Line(<<" ", "y", " ">>)
    /\ Cardinality(Positions(trace, {"download"})) = 1
    /\ Cardinality(Positions(trace, {"ydl.download"})) = 1

----------------------------------------------------------------------------
(* Properties of run() and handle_config_commands() *)

ConfigFlag(a) ==
    a.show_config \/ a.keep_video \/ a.no_keep_video \/ a.set_download_path # PyNone

\* C14: run() selects exactly one mode per invocation: with any configuration
\* flag (--show-config, --set-download-path, --keep-video, --no-keep-video)
\* it only handles configuration, with no download call (even with --link)
\* and no interactive mode; otherwise with --link it calls download exactly
\* once with that URL and does not enter interactive mode; it enters
\* interactive mode only when no flag is present.
C14_ExactlyOneMode ==
    call.op = "run" /\ config # Unset =>
        LET dl == Positions(trace, {"download"})
        IN  /\ ConfigFlag(args) =>
                /\ dl = {}
                /\ pc # "interactive"
            /\ ~ConfigFlag(args) /\ args.link # PyNone =>
                /\ Cardinality(dl) = 1
                /\ \A i \in dl : trace[i].arg = args.link.s
                /\ pc # "interactive"
            /\ pc = "interactive" => ~ConfigFlag(args) /\ args.link = PyNone

\* the download_path entry of a settings object, or a marker when there is none
PathOf(c) ==
    IF c.t = "dict" /\ "download_path" \in DOMAIN c.m THEN c.m["download_path"]
    ELSE [t |-> "absent"]

FilePathOf(f) == IF f.kind = "object" THEN PathOf(JsonLoad(f)) ELSE [t |-> "absent"]

\* C15: with --set-download-path the download_path setting is changed (and
\* persisted) only if the directory already exists or the user agreed to
\* create it and the creation succeeded; if the user declines or creation
\* fails no setting is updated; in each of these cases
\* handle_config_commands returns True, so that neither a download nor
\* interactive mode follows.
C15_PathSetOnlyWhenDirectoryReady ==
    (/\ call.op = "run"
     /\ config # Unset
     /\ ~args.show_config
     /\ args.set_download_path.t = "str"
     /\ args.set_download_path.s # <<>>) =>
        LET path == expanduser(args.set_download_path.s)
            loaded == ConfigManager_init(call.file, "ok").config
            started == {ConfigManager_init(call.file, w).file : w \in WriteOutcomes}
            \* what the file holds when no new download_path was written to it
            kept == {FilePathOf(f) : f \in started} \cup {PathOf(loaded), [t |-> "absent"]}
            existed == path \in call.dirs
            answered == ~existed /\ call.in.kind = "line"
            agreed == answered /\ IsWord(call.in.s, {<<"y">>, <<"y", "e", "s">>})
            created == agreed /\ call.mkdir = "ok" /\ path \in dirs
            no_path == \/ answered /\ ~agreed
                       \/ agreed /\ call.mkdir = "fails"
        IN  /\ PathOf(config) # PathOf(loaded) => existed \/ created
            /\ FilePathOf(file) \notin kept => existed \/ created
            /\ no_path =>
                /\ PathOf(config) = PathOf(loaded)
                /\ FilePathOf(file) \in kept
                /\ ~args.keep_video /\ ~args.no_keep_video =>
                    /\ config = loaded
                    /\ file \in started
            /\ existed \/ answered =>
                /\ call.mode = "config"
                /\ Positions(trace, {"download"}) = {}
                /\ pc = "exited"

----------------------------------------------------------------------------
(* Properties of get_download_path() *)

IsAbsolute(p) == Len(p) > 0 /\ p[1] = "/"

\* C16: get_download_path() returns the stored download_path with the
\* user-home shorthand expanded, and the result is an absolute path for every
\* download_path value the program can store (the default, a loaded value,
\* or a value set through --set-download-path).
C16_DownloadPathExpandedAbsolute ==
    call.op = "get_download_path" /\ PathOf(call.config).t = "str" =>
        LET p == PathOf(call.config).s
        IN  /\ exc = "none"
            /\ ret.t = "str"
            /\ Len(p) = 0 \/ p[1] # "~" => ret.s = p
            /\ Len(p) >= 2 /\ p[1] = "~" /\ p[2] = "/" => ret.s = HOME \o SubSeq(p, 2, Len(p))
            /\ IsAbsolute(ret.s)

----------------------------------------------------------------------------
(* Properties of main() *)

LastPrinted(m) == Len(printed) > 0 /\ printed[Len(printed)] = m

\* the prompt or library call named ev was reached in the last step
Reached(ev) == Positions(trace, {ev}) # {}

\* the way the last step was cut short by the user or by the end of input:
\* "interrupt", "eof" or "no"
CutShort ==
    IF call.op = "run" /\ Reached("input:create") /\ call.in.kind # "line" THEN call.in.kind
    ELSE IF call.op = "iteration" /\ call.in1.kind # "line" THEN call.in1.kind
    ELSE IF call.op = "iteration" /\ Reached("input:confirm") /\ call.in2.kind # "line"
    THEN call.in2.kind
    ELSE IF call.op \in {"run", "iteration"} /\ Reached("ydl.download") /\ call.ydl = "interrupted"
    THEN "interrupt"
    ELSE "no"

\* C17: main() exits with status 0 when run() completes normally; a user
\* interrupt at any point prints a message and exits with status 0; any other
\* uncaught error raised during construction or run() prints a message and
\* exits with status 1.
C17_ExitStatus ==
    /\ pc = "exited" <=> exit_code # -1
    /\ CutShort = "interrupt" =>
        /\ exc = "KeyboardInterrupt"
        /\ pc = "exited"
    /\ CutShort = "eof" =>
        /\ exc = "EOFError"
        /\ pc = "exited"
    /\ pc = "exited" =>
        /\ exc = "none" =>
            /\ exit_code = 0
            /\ ~Printed("Operation cancelled by user.")
            /\ ~Printed("Unexpected error")
        /\ exc = "KeyboardInterrupt" =>
            /\ exit_code = 0
            /\ LastPrinted("Operation cancelled by user.")
        /\ exc \notin {"none", "KeyboardInterrupt"} =>
            /\ exit_code = 1
            /\ LastPrinted("Unexpected error")

C17_Witness ==
    /\ call.op = "iteration"
    /\ nops = 2
    /\ Reached("ydl.download")
    /\ call.ydl = "interrupted"
    /\ exit_code = 0
    /\ LastPrinted("Operation cancelled by user.")

====
